---- MODULE Spec2Model ----
(***************************************************************************)
(* Model of transformer/config.py: configuration resolution                *)
(* (ExecutorConfig), segment building (SourceMapperConfig), output format  *)
(* extraction (ResultMapperConfig) and result extraction (ResultConfig).   *)
(*                                                                         *)
(* A YAML value is a record [t, v]: t is the Python type of the parsed     *)
(* value and v its content.  A string is a sequence of one-character       *)
(* strings, a mapping is a sequence of <<key, value>> pairs in declaration *)
(* order (Python dicts keep insertion order), a list is a sequence.        *)
(* A call that can raise returns [e, v]: e is the exception class name     *)
(* ("none" when the call returns normally), v the returned value and m the  *)
(* exception's message where the code gives one.                           *)
(***************************************************************************)
EXTENDS Integers, Sequences, FiniteSets, TLC

VARIABLES pc, local, inline, env, fs, s3, key, data,
          consulted, config, exact_config,
          mappers, result_config, name, arguments, range, err, msg

inputs == <<local, inline, env, fs, s3, key, data>>
vars == <<pc, local, inline, env, fs, s3, key, data,
          consulted, config, exact_config,
          mappers, result_config, name, arguments, range, err, msg>>

----------------------------------------------------------------------------
(* Bounds of the model *)

MaxDataLen == 5
MaxKeyLen == 3
MaxFiles == 2
MaxFields == 2

----------------------------------------------------------------------------
(* YAML / Python values *)

Null == [t |-> "null", v |-> <<>>]
Unset == [t |-> "unset", v |-> <<>>]
Str(s) == [t |-> "str", v |-> s]
YInt(n) == [t |-> "int", v |-> <<n>>]
YList(items) == [t |-> "list", v |-> items]
YMap(pairs) == [t |-> "map", v |-> pairs]
EmptyMap == YMap(<<>>)

Ok(v) == [e |-> "none", v |-> v, m |-> ""]
RaiseMsg(k, text) == [e |-> k, v |-> Unset, m |-> text]
Raise(k) == RaiseMsg(k, "")

(* sequencing: an exception of r ends the call, else F continues with r's value *)
Then(r, F(_)) == IF r.e # "none" THEN r ELSE F(r.v)

SeqsUpTo(S, n) == UNION {[1..k -> S] : k \in 0..n}

----------------------------------------------------------------------------
(* str operations used by _converter *)

Whitespace == {" "}
Digits == {"0", "1", "2", "3", "4", "5", "6", "7", "8", "9"}

DigitValue(c) ==
    CASE c = "0" -> 0 [] c = "1" -> 1 [] c = "2" -> 2 [] c = "3" -> 3
      [] c = "4" -> 4 [] c = "5" -> 5 [] c = "6" -> 6 [] c = "7" -> 7
      [] c = "8" -> 8 [] c = "9" -> 9

(* sub in s, for one-character sub *)
CharIn(c, s) == \E i \in 1..Len(s) : s[i] = c

(* s.split(sep): every separator cuts; "a,,b" gives three parts *)
RECURSIVE SplitFrom(_, _, _, _)
SplitFrom(s, sep, i, cur) ==
    IF i > Len(s) THEN <<cur>>
    ELSE IF s[i] = sep THEN <<cur>> \o SplitFrom(s, sep, i + 1, <<>>)
    ELSE SplitFrom(s, sep, i + 1, Append(cur, s[i]))

Split(s, sep) == SplitFrom(s, sep, 1, <<>>)

RECURSIVE LStrip(_)
LStrip(s) == IF s # <<>> /\ Head(s) \in Whitespace THEN LStrip(Tail(s)) ELSE s

RECURSIVE RStrip(_)
RStrip(s) ==
    IF s # <<>> /\ s[Len(s)] \in Whitespace THEN RStrip(SubSeq(s, 1, Len(s) - 1)) ELSE s

Strip(s) == RStrip(LStrip(s))

RECURSIVE DecimalValue(_)
DecimalValue(s) ==
    IF s = <<>> THEN 0
    ELSE DecimalValue(SubSeq(s, 1, Len(s) - 1)) * 10 + DigitValue(s[Len(s)])

IsDigits(s) == s # <<>> /\ \A i \in 1..Len(s) : s[i] \in Digits

(* int(s): surrounding whitespace, an optional sign, then decimal digits *)
ParseInt(s) ==
    LET b == Strip(s)
        signed == b # <<>> /\ Head(b) \in {"-", "+"}
        body == IF signed THEN Tail(b) ELSE b
    IN  IF ~IsDigits(body) THEN Raise("ValueError")
        ELSE IF signed /\ Head(b) = "-" THEN Ok(0 - DecimalValue(body))
        ELSE Ok(DecimalValue(body))

(* SourceMapperConfig._converter *)
converter(d) ==
    IF d.t # "str" THEN RaiseMsg("ValueError", "Invalid Type for input [data]")
    ELSE IF ~CharIn(",", d.v)
    THEN RaiseMsg("ValueError", "[data] must be comma seperated! eg. 1,2")
    ELSE LET splits == Split(d.v, ",")
             a == ParseInt(Strip(splits[1]))
             b == ParseInt(Strip(splits[2]))
         IN  IF a.e # "none" THEN a
             ELSE IF b.e # "none" THEN b
             ELSE Ok(<<a.v, b.v>>)

----------------------------------------------------------------------------
(* dict / object operations *)

HasKey(m, k) == \E i \in 1..Len(m.v) : m.v[i][1] = k
Lookup(m, k) == m.v[CHOOSE i \in 1..Len(m.v) : m.v[i][1] = k][2]
KeysOf(m) == [i \in 1..Len(m.v) |-> m.v[i][1]]

(* d[k] for a str key k *)
GetItem(d, k) ==
    IF d.t = "map"
    THEN IF HasKey(d, k) THEN Ok(Lookup(d, k)) ELSE Raise("KeyError")
    ELSE Raise("TypeError")

(* d.keys() *)
Keys(d) == IF d.t = "map" THEN Ok(KeysOf(d)) ELSE Raise("AttributeError")

(* bool(d) *)
Truthy(d) ==
    CASE d.t = "null" -> FALSE
      [] d.t = "int" -> d.v[1] # 0
      [] OTHER -> d.v # <<>>

IsSubSeq(sub, s) ==
    \E i \in 0..(Len(s) - Len(sub)) : \A j \in 1..Len(sub) : s[i + j] = sub[j]

KeyChars(k) ==
    CASE k = "format" -> <<"f", "o", "r", "m", "a", "t">>

(* k in d, for a str k *)
Contains(k, d) ==
    CASE d.t = "map" -> Ok(HasKey(d, k))
      [] d.t = "str" -> Ok(IsSubSeq(KeyChars(k), d.v))
      [] d.t = "list" -> Ok(\E i \in 1..Len(d.v) : d.v[i] = Str(KeyChars(k)))
      [] OTHER -> Raise("TypeError")

----------------------------------------------------------------------------
(* Collaborators of _retrieve_config: the YAML parser, the environment, the
   file system and the object store *)

NoArg == [given |-> FALSE, v |-> ""]
Arg(s) == [given |-> TRUE, v |-> s]

DocOneEntry ==
    YMap(<< <<"files", YMap(<< <<"x", YMap(<< <<"pattern", Str(<<"A">>)>> >>)>> >>)>> >>)
DocNullFiles == YMap(<< <<"files", Null>> >>)

(* yaml.safe_load on the texts of the model *)
safe_load(text) ==
    CASE text = "" -> Ok(Null)
      [] text = "- a" -> Ok(YList(<<Str(<<"a">>)>>))
      [] text = "a" -> Ok(Str(<<"a">>))
      [] text = "files:" -> Ok(DocNullFiles)
      [] text = "files: {x: {pattern: A}}" -> Ok(DocOneEntry)

Texts == {"", "- a", "a", "files:", "files: {x: {pattern: A}}"}
Paths == {"a.yml", "b.yml"}
Missing == "<missing>"

(* common.check_environment_variables(names): the values, in order; every
   environment of the model sets the required names *)
check_environment_variables(e, names) == [i \in 1..Len(names) |-> e[names[i]].v]

(* aws_service.download_s3_as_bytes(bucket, key).read() *)
download_s3_as_bytes(store, bucket, k) == store

(* the isinstance(cfg, dict) test after each load; the explicit-path branch
   ends in a bare raise *)
CheckMapping(loaded, onFail) ==
    IF loaded.e # "none" THEN loaded
    ELSE IF loaded.v.t = "map" THEN Ok(loaded.v)
    ELSE Raise(onFail)

(* ExecutorConfig._retrieve_config; c is the set of sources read *)
retrieve_config(loc, inl, e, files, store) ==
    IF inl.given /\ inl.v # ""
    THEN [c |-> {"inline"}] @@ CheckMapping(safe_load(inl.v), "InvalidConfigError")
    ELSE IF ~loc.given
    THEN IF ~e["config_type"].given
         THEN [c |-> {"env"}] @@ Raise("KeyError")
         ELSE IF e["config_type"].v = "local"
         THEN LET env_config == check_environment_variables(e, <<"config_name">>)
              IN  [c |-> {"env", "envfile"}] @@
                  (IF files[env_config[1]] = Missing
                   THEN Raise("FileNotFoundError")
                   ELSE CheckMapping(safe_load(files[env_config[1]]), "InvalidConfigError"))
         ELSE LET env_config ==
                      check_environment_variables(e, <<"config_bucket", "config_name">>)
              IN  [c |-> {"env", "s3"}] @@
                  CheckMapping(
                      safe_load(download_s3_as_bytes(store, env_config[1], env_config[2])),
                      "InvalidConfigError")
    ELSE [c |-> {"local"}] @@
         (IF files[loc.v] = Missing
          THEN Raise("MissingConfigError")
          ELSE CheckMapping(safe_load(files[loc.v]), "RuntimeError"))

----------------------------------------------------------------------------
(* re.match for the patterns of the model: literals, ".", postfix "*" *)

RECURSIVE MatchHere(_, _)
MatchHere(re, text) ==
    IF re = <<>> THEN TRUE
    ELSE IF Len(re) >= 2 /\ re[2] = "*"
    THEN \E n \in 0..Len(text) :
            /\ \A i \in 1..n : re[1] = "." \/ re[1] = text[i]
            /\ MatchHere(SubSeq(re, 3, Len(re)), SubSeq(text, n + 1, Len(text)))
    ELSE /\ text # <<>>
         /\ re[1] = "." \/ re[1] = text[1]
         /\ MatchHere(Tail(re), Tail(text))

(* "*" with nothing before it, or after another "*", does not compile *)
ValidPattern(re) ==
    \A i \in 1..Len(re) : re[i] = "*" => (i > 1 /\ re[i - 1] # "*")

(* re.match(pattern, key) is not None *)
re_match(pattern, k) ==
    IF pattern.t # "str" THEN Raise("TypeError")
    ELSE IF ~ValidPattern(pattern.v) THEN Raise("re.error")
    ELSE Ok(MatchHere(pattern.v, k))

(* the loop without its early return: a later match overwrites an earlier one *)
RECURSIVE ScanFilesNoReturn(_, _, _)
ScanFilesNoReturn(files, i, k) ==
    IF i > Len(files.v) THEN Raise("MissingConfigError")
    ELSE LET entry == files.v[i][2]
             pattern == GetItem(entry, "pattern")
         IN  IF pattern.e # "none" THEN Raise(pattern.e)
             ELSE LET m == re_match(pattern.v, k)
                      rest == ScanFilesNoReturn(files, i + 1, k)
                  IN  IF m.e # "none" THEN Raise(m.e)
                      ELSE IF rest.e # "MissingConfigError" THEN rest
                      ELSE IF m.v THEN Ok(entry)
                      ELSE rest

(* the loop of _set_exact_config from entry i on *)
RECURSIVE ScanFiles(_, _, _)
ScanFiles(files, i, k) ==
    IF i > Len(files.v)
    THEN RaiseMsg("MissingConfigError", "No matching regex pattern found for file")
    ELSE LET entry == files.v[i][2]
             pattern == GetItem(entry, "pattern")
         IN  IF pattern.e # "none" THEN pattern
             ELSE LET m == re_match(pattern.v, k)
                  IN  IF m.e # "none" THEN m
                      ELSE IF m.v THEN Ok(entry)
                      ELSE ScanFiles(files, i + 1, k)

(* ExecutorConfig._set_exact_config *)
set_exact_config(cfg, k) ==
    LET files == GetItem(cfg, "files")
    IN  IF files.e # "none" THEN files
        ELSE IF files.v = Null THEN Raise("InvalidConfigError")
        ELSE CASE files.v.t = "map" -> ScanFiles(files.v, 1, k)

----------------------------------------------------------------------------
(* State before any constructor has run *)

EnvNames == {"config_type", "config_name", "config_bucket"}
NoEnv == [n \in EnvNames |-> NoArg]
NoFs == [p \in Paths |-> Missing]

NoResolveInputs ==
    /\ local = NoArg /\ inline = NoArg /\ env = NoEnv /\ fs = NoFs /\ s3 = ""

FreshFields ==
    /\ consulted = {} /\ config = Unset /\ exact_config = Unset
    /\ mappers = <<>> /\ result_config = Unset /\ name = Unset
    /\ arguments = Unset /\ range = Unset /\ err = "none" /\ msg = ""

----------------------------------------------------------------------------
(* ExecutorConfig.__init__: _retrieve_config, then _set_exact_config; an
   exception of either ends the constructor *)

Alphabet == {"A", "B", "C"}
Identifiers == SeqsUpTo(Alphabet, MaxKeyLen)

Environments ==
    {[n \in EnvNames |->
        CASE n = "config_type" -> ct
          [] n = "config_name" -> Arg(cn)
          [] n = "config_bucket" -> Arg("bucket")] :
     ct \in {NoArg, Arg("local"), Arg("s3")}, cn \in Paths}

InitExecutor ==
    /\ pc = "retrieve"
    /\ inline \in {NoArg} \cup {Arg(t) : t \in Texts}
    /\ local \in {NoArg} \cup {Arg(p) : p \in Paths}
    /\ env \in Environments
    /\ fs \in [Paths -> Texts \cup {Missing}]
    /\ s3 \in Texts
    /\ key \in {<<"A">>, <<"B">>}
    /\ data = Null
    /\ FreshFields

RetrieveConfig ==
    /\ pc = "retrieve"
    /\ LET r == retrieve_config(local, inline, env, fs, s3)
       IN  /\ consulted' = r.c
           /\ err' = r.e /\ msg' = r.m
           /\ config' = IF r.e = "none" THEN r.v ELSE config
           /\ pc' = IF r.e = "none" THEN "select" ELSE "done"
    /\ UNCHANGED <<inputs, exact_config, mappers, result_config, name, arguments, range>>

SetExactConfig ==
    /\ pc = "select"
    /\ LET r == set_exact_config(config, key)
       IN  /\ err' = r.e /\ msg' = r.m
           /\ exact_config' = IF r.e = "none" THEN r.v ELSE exact_config
    /\ pc' = "done"
    /\ UNCHANGED <<inputs, consulted, config, mappers, result_config, name, arguments, range>>

NextExecutor == RetrieveConfig \/ SetExactConfig

SpecExecutor == InitExecutor /\ [][NextExecutor]_vars

Retrieved == pc # "retrieve"
EnvSet(n) == env[n].given
EnvVal(n) == env[n].v

(* the text of the source the precedence rule of the specification selects *)
SelectedSource ==
    IF inline.given THEN "inline"
    ELSE IF local.given THEN "local"
    ELSE IF EnvSet("config_type") /\ EnvVal("config_type") = "local" THEN "envfile"
    ELSE "s3"

SourceText(src) ==
    CASE src = "inline" -> inline.v
      [] src = "local" -> fs[local.v]
      [] src = "envfile" -> fs[EnvVal("config_name")]
      [] src = "s3" -> s3

SourceReads(src) ==
    CASE src = "inline" -> {"inline"}
      [] src = "local" -> {"local"}
      [] src = "envfile" -> {"env", "envfile"}
      [] src = "s3" -> {"env", "s3"}

(* C1: once _retrieve_config has run, exactly the source selected by strict
   precedence was read (inline text if provided, else the local path if
   provided, else the environment: config_type = "local" selects the file
   named by config_name, any other case the remote object), and a returned
   document is the parse of that source's text. *)
C1_StrictPrecedence ==
    Retrieved =>
        /\ consulted = SourceReads(SelectedSource)
        /\ config # Unset => config = safe_load(SourceText(SelectedSource)).v

(* the source _retrieve_config actually read *)
SourceRead ==
    CASE "inline" \in consulted -> "inline"
      [] "local" \in consulted -> "local"
      [] "envfile" \in consulted -> "envfile"
      [] "s3" \in consulted -> "s3"
      [] OTHER -> "none"

ParsedNonMapping(src) ==
    /\ src # "none"
    /\ SourceText(src) # Missing
    /\ safe_load(SourceText(src)).e = "none"
    /\ safe_load(SourceText(src)).v.t # "map"

(* C2: whichever source was read, a parsed document that is not a mapping
   makes resolution fail with InvalidConfigError, and no document is kept. *)
C2_NonMappingIsInvalidConfig ==
    Retrieved /\ ParsedNonMapping(SourceRead) =>
        err = "InvalidConfigError" /\ config = Unset

----------------------------------------------------------------------------
(* _set_exact_config on the documents _retrieve_config can return *)

FileKey(i) == CASE i = 1 -> "x" [] i = 2 -> "y" [] i = 3 -> "z" [] i = 4 -> "w"

Patterns == {<<"A", ".", "*">>, <<"A", "B", ".", "*">>, <<"B">>, <<"A", "*", "B">>,
             <<"*", "A">>}

(* what an entry says about its pattern: a regular expression, null, or nothing *)
PatternOptions == {Str(p) : p \in Patterns} \cup {Null, Unset}

EntryBody(i) ==
    << <<"source",
         YMap(<< <<"body",
                   YMap(<< <<"mapper", Str(<<FileKey(i)>>)>>,
                           <<"format", YList(<<>>)>> >>)>> >>)>> >>

EntryOf(i, opt) ==
    IF opt = Unset THEN YMap(EntryBody(i))
    ELSE YMap(<< <<"pattern", opt>> >> \o EntryBody(i))

EntryOptions == PatternOptions \cup {[t |-> "nullentry", v |-> <<>>]}

FilesOf(opts) ==
    YMap([i \in 1..Len(opts) |->
            <<FileKey(i),
              IF opts[i].t = "nullentry" THEN Null ELSE EntryOf(i, opts[i])>>])

FilesValues == {Null} \cup {FilesOf(opts) : opts \in SeqsUpTo(EntryOptions, MaxFiles)}

DocNoFiles == YMap(<< <<"version", YInt(1)>> >>)

InitSelect ==
    /\ pc = "select"
    /\ \/ config = DocNoFiles
       \/ \E f \in FilesValues : config = YMap(<< <<"files", f>> >>)
    /\ key \in Identifiers
    /\ NoResolveInputs /\ data = Null
    /\ consulted = {} /\ exact_config = Unset
    /\ mappers = <<>> /\ result_config = Unset /\ name = Unset
    /\ arguments = Unset /\ range = Unset /\ err = "none" /\ msg = ""

NextSelect == SetExactConfig

SpecSelect == InitSelect /\ [][NextSelect]_vars

(* C3: a document without a files key, or whose files key is null, makes
   selection fail with InvalidConfigError for every file identifier. *)
C3_NoFilesIsInvalidConfig ==
    pc = "done" /\ (~HasKey(config, "files") \/ Lookup(config, "files") = Null) =>
        err = "InvalidConfigError"

(* the language of a pattern, read from its end: w is matched in full *)
RECURSIVE Accepts(_, _)
Accepts(re, w) ==
    IF re = <<>> THEN w = <<>>
    ELSE IF re[Len(re)] = "*"
    THEN \E n \in 0..Len(w) :
            /\ \A i \in (Len(w) - n + 1)..Len(w) :
                   re[Len(re) - 1] = "." \/ re[Len(re) - 1] = w[i]
            /\ Accepts(SubSeq(re, 1, Len(re) - 2), SubSeq(w, 1, Len(w) - n))
    ELSE /\ w # <<>>
         /\ re[Len(re)] = "." \/ re[Len(re)] = w[Len(w)]
         /\ Accepts(SubSeq(re, 1, Len(re) - 1), SubSeq(w, 1, Len(w) - 1))

(* match-from-start: the pattern matches some prefix of the identifier *)
PrefixMatch(re, k) == \E n \in 0..Len(k) : Accepts(re, SubSeq(k, 1, n))

(* the data model's FileTypeEntry: every entry carries a regular expression *)
WellFormedFiles(cfg) ==
    /\ HasKey(cfg, "files")
    /\ Lookup(cfg, "files").t = "map"
    /\ \A i \in 1..Len(Lookup(cfg, "files").v) :
          LET entry == Lookup(cfg, "files").v[i][2]
          IN  /\ entry.t = "map"
              /\ HasKey(entry, "pattern")
              /\ Lookup(entry, "pattern").t = "str"
              /\ ValidPattern(Lookup(entry, "pattern").v)

MatchingEntries(cfg, k) ==
    {i \in 1..Len(Lookup(cfg, "files").v) :
        PrefixMatch(Lookup(Lookup(cfg, "files").v[i][2], "pattern").v, k)}

(* C4: on a files mapping whose entries all carry a pattern, selection returns
   the sub-document of the first entry, in declaration order, whose pattern
   matches a prefix of the identifier, and fails with MissingConfigError
   exactly when no entry's pattern matches. *)
C4_FirstMatchWins ==
    pc = "done" /\ WellFormedFiles(config) =>
        LET M == MatchingEntries(config, key)
        IN  IF M = {}
            THEN err = "MissingConfigError" /\ exact_config = Unset
            ELSE /\ err = "none"
                 /\ exact_config =
                        Lookup(config, "files").v[CHOOSE i \in M : \A j \in M : i <= j][2]

(* two entries match "ABC", the later one more specifically; the first wins *)
C4_Witness ==
    /\ pc = "done" /\ WellFormedFiles(config)
    /\ key = <<"A", "B", "C">>
    /\ Len(Lookup(config, "files").v) = 2
    /\ Lookup(Lookup(config, "files").v[1][2], "pattern") = Str(<<"A", ".", "*">>)
    /\ Lookup(Lookup(config, "files").v[2][2], "pattern") = Str(<<"A", "B", ".", "*">>)
    /\ exact_config = Lookup(config, "files").v[1][2]

----------------------------------------------------------------------------
(* Position-range conversion on its own *)

DataChars == {"1", "2", ",", " ", "a", "-"}
DataInputs == {Str(s) : s \in SeqsUpTo(DataChars, MaxDataLen)} \cup {Null, YInt(12)}

InitConverter ==
    /\ pc = "converter"
    /\ data \in DataInputs
    /\ NoResolveInputs /\ key = <<>>
    /\ FreshFields

Converter ==
    /\ pc = "converter"
    /\ LET r == converter(data)
       IN  /\ range' = r.v
           /\ err' = r.e /\ msg' = r.m
    /\ pc' = "done"
    /\ UNCHANGED <<inputs, consulted, config, exact_config, mappers,
                   result_config, name, arguments>>

NextConverter == Converter

SpecConverter == InitConverter /\ [][NextConverter]_vars

CommaCount(s) == Cardinality({i \in 1..Len(s) : s[i] = ","})

(* C9: _converter returns a pair only for a string with exactly one comma,
   and the pair is (int of the part before the comma, int of the part after
   it); a string with no comma or with two or more commas gets a ValueError. *)
C9_ExactlyOneComma ==
    pc = "done" =>
        /\ err = "none" =>
              /\ data.t = "str" /\ CommaCount(data.v) = 1
              /\ range = <<ParseInt(Split(data.v, ",")[1]).v,
                           ParseInt(Split(data.v, ",")[2]).v>>
        /\ data.t = "str" /\ CommaCount(data.v) # 1 => err = "ValueError"

----------------------------------------------------------------------------
(* SourceMapperConfig.__init__: set_mappers(config.get_exact_config()) *)

(* ValidatorConfig(name, segment, field_name, arguments) *)
ValidatorConfig(n, segment, field_name, args) ==
    [name |-> n, segment |-> segment, field_name |-> field_name, arguments |-> args]

(* source_mapper.MapperConfig(name=..., segment=..., ...) *)
MapperConfig(n, segment, names, specs, skipHeader, skipFooter, validations) ==
    [name |-> n, segment |-> segment, names |-> names, specs |-> specs,
     skipHeader |-> skipHeader, skipFooter |-> skipFooter, validations |-> validations]

(* the validators loop of one field, from validator i on *)
RECURSIVE BuildValidators(_, _, _, _, _)
BuildValidators(list, segment, field_name, i, acc) ==
    IF i > Len(list.v) THEN Ok(acc)
    ELSE Then(GetItem(list.v[i], "name"), LAMBDA n :
         Then(GetItem(list.v[i], "arguments"), LAMBDA args :
              BuildValidators(list, segment, field_name, i + 1,
                  Append(acc, ValidatorConfig(n, segment, field_name, args)))))

(* the validators part of the field loop's body *)
FieldValidators(field, segment, field_name, grown) ==
    IF ~HasKey(field, "validators") THEN Ok(grown)
    ELSE IF Lookup(field, "validators").t # "list" THEN Raise("TypeError")
    ELSE Then(BuildValidators(Lookup(field, "validators"), segment, field_name, 1,
                  grown.validators),
              LAMBDA vs : Ok([grown EXCEPT !.validators = vs]))

(* the body of the field loop: the three lists after one more field *)
BuildField(field, segment, acc) ==
    Then(GetItem(field, "name"), LAMBDA n :
    Then(GetItem(field, "spec"), LAMBDA spec :
    Then(converter(spec), LAMBDA pair :
    Then(Keys(field), LAMBDA ks :
         FieldValidators(field, segment, n,
             [acc EXCEPT !.names = Append(@, n), !.specs = Append(@, pair)])))))

RECURSIVE BuildFields(_, _, _, _)
BuildFields(format, segment, i, acc) ==
    IF i > Len(format.v) THEN Ok(acc)
    ELSE Then(BuildField(format.v[i], segment, acc),
              LAMBDA grown : BuildFields(format, segment, i + 1, grown))

(* has_header, has_footer: a key of that name directly under the family *)
HasHeaderFlagSwapped(family) == HasKey(family, "footer")
HasHeader(family) == HasKey(family, "header")
HasFooter(family) == HasKey(family, "footer")

(* for field in config[file_format][segment]['format'] *)
FormatOf(segment_config) ==
    Then(GetItem(segment_config, "format"),
         LAMBDA format : IF format.t # "list" THEN Raise("TypeError") ELSE Ok(format))

(* the body of the segment loop: one MapperConfig *)
BuildSegment(family, idx) ==
    Then(FormatOf(family.v[idx][2]), LAMBDA format :
    Then(BuildFields(format, family.v[idx][1], 1,
             [names |-> <<>>, specs |-> <<>>, validators |-> <<>>]), LAMBDA lists :
    Then(GetItem(family.v[idx][2], "mapper"), LAMBDA mapper :
         Ok(MapperConfig(mapper, family.v[idx][1], lists.names, lists.specs,
                HasHeader(family), HasFooter(family), lists.validators)))))

RECURSIVE BuildSegments(_, _, _)
BuildSegments(family, idx, acc) ==
    IF idx > Len(family.v) THEN Ok(acc)
    ELSE Then(BuildSegment(family, idx),
              LAMBDA m : BuildSegments(family, idx + 1, Append(acc, m)))

(* SourceMapperConfig.set_mappers *)
set_mappers(cfg, file_format) ==
    Then(Keys(cfg), LAMBDA ks :
         IF ~HasKey(cfg, file_format)
         THEN RaiseMsg("InvalidConfigError", "segment is missing in configuration")
         ELSE IF Lookup(cfg, file_format) = Null
         THEN RaiseMsg("InvalidConfigError", "segment cannot be empty")
         ELSE Then(Keys(Lookup(cfg, file_format)),
                   LAMBDA fk : BuildSegments(Lookup(cfg, file_format), 1, <<>>)))

(* the segment keys of a family, in declaration order *)
SegmentOrders ==
    {<<>>, <<"body">>, <<"header">>, <<"header", "body">>, <<"body", "header">>,
     <<"body", "footer">>, <<"header", "body", "footer">>}

ValidatorOf(n) ==
    YMap(<< <<"name", Str(<<n>>)>>, <<"arguments", YList(<<YInt(1)>>)>> >>)

FieldOptions ==
    { YMap(<< <<"name", Str(<<"i", "d">>)>>, <<"spec", Str(<<"0", ",", "5">>)>> >>),
      YMap(<< <<"name", Str(<<"a", "m", "t">>)>>,
              <<"spec", Str(<<"5", ",", " ", "1", "2">>)>>,
              <<"validators", YList(<<ValidatorOf("v"), ValidatorOf("w")>>)>> >>),
      YMap(<< <<"name", Str(<<"x">>)>>, <<"spec", Str(<<"a", "b", "c">>)>> >>) }

SegmentOptions ==
    {YMap(<< <<"mapper", Str(<<"f">>)>>, <<"format", YList(f)>> >>) :
        f \in SeqsUpTo(FieldOptions, MaxFields)}

FamilyOf(ns, segs) == YMap([i \in 1..Len(ns) |-> <<ns[i], segs[i]>>])

EntryWith(pairs) == YMap(<< <<"pattern", Str(<<"A">>)>> >> \o pairs)

InitMappers ==
    /\ pc = "mappers"
    /\ \/ exact_config \in {EntryWith(<<>>), EntryWith(<< <<"source", Null>> >>)}
       \/ \E ns \in SegmentOrders : \E segs \in [1..Len(ns) -> SegmentOptions] :
              exact_config = EntryWith(<< <<"source", FamilyOf(ns, segs)>> >>)
    /\ NoResolveInputs /\ key = <<"A">> /\ data = Null
    /\ consulted = {} /\ config = Unset
    /\ mappers = <<>> /\ result_config = Unset /\ name = Unset
    /\ arguments = Unset /\ range = Unset /\ err = "none" /\ msg = ""

SetMappers ==
    /\ pc = "mappers"
    /\ LET r == set_mappers(exact_config, "source")
       IN  /\ err' = r.e /\ msg' = r.m
           /\ mappers' = IF r.e = "none" THEN r.v ELSE mappers
    /\ pc' = "done"
    /\ UNCHANGED <<inputs, consulted, config, exact_config, result_config,
                   name, arguments, range>>

NextMappers == SetMappers

SpecMappers == InitMappers /\ [][NextMappers]_vars

(* the validators a field declares, as set_mappers should describe them *)
DeclaredValidators(field, segment) ==
    IF ~HasKey(field, "validators") THEN <<>>
    ELSE [j \in 1..Len(Lookup(field, "validators").v) |->
            ValidatorConfig(Lookup(Lookup(field, "validators").v[j], "name"), segment,
                            Lookup(field, "name"),
                            Lookup(Lookup(field, "validators").v[j], "arguments"))]

(* the declared validators of the first n fields, in declaration order *)
RECURSIVE ValidatorsUpTo(_, _, _)
ValidatorsUpTo(format, segment, n) ==
    IF n = 0 THEN <<>>
    ELSE ValidatorsUpTo(format, segment, n - 1) \o DeclaredValidators(format[n], segment)

(* C10: for a family set_mappers accepts there is one MapperConfig per segment
   key, in declared order; names and specs have the length of the segment's
   format list and entry i of each comes from the i-th declared field; the
   skipHeader / skipFooter flags of every MapperConfig say whether a key
   named header / footer exists directly under the family; validations are
   the declared validators of the segment's fields, in declaration order. *)
C10_SegmentsMirrorDeclaration ==
    pc = "done" /\ err = "none" =>
        LET family == Lookup(exact_config, "source")
        IN  /\ Len(mappers) = Len(family.v)
            /\ \A s \in 1..Len(mappers) :
                  LET format == Lookup(family.v[s][2], "format").v
                      m == mappers[s]
                  IN  /\ m.segment = family.v[s][1]
                      /\ Len(m.names) = Len(format) /\ Len(m.specs) = Len(format)
                      /\ \A i \in 1..Len(format) :
                            /\ m.names[i] = Lookup(format[i], "name")
                            /\ m.specs[i] = converter(Lookup(format[i], "spec")).v
                      /\ m.skipHeader = (\E j \in 1..Len(family.v) : family.v[j][1] = "header")
                      /\ m.skipFooter = (\E j \in 1..Len(family.v) : family.v[j][1] = "footer")
                      /\ m.validations = ValidatorsUpTo(format, m.segment, Len(format))

(* body then header: both specs carry skipHeader, body has two distinct
   fields and validators for one of them *)
C10_Witness ==
    /\ pc = "done" /\ err = "none"
    /\ Len(mappers) = 2
    /\ mappers[1].segment = "body" /\ mappers[2].segment = "header"
    /\ mappers[1].skipHeader /\ mappers[2].skipHeader /\ ~mappers[1].skipFooter
    /\ Len(mappers[1].names) = 2 /\ mappers[1].names[1] # mappers[1].names[2]
    /\ mappers[1].specs = <<<<0, 5>>, <<5, 12>>>>
    /\ Len(mappers[1].validations) = 2

----------------------------------------------------------------------------
(* ResultMapperConfig.__init__: set_result_config(config.get_exact_config()) *)

(* set_result_config without its except clause *)
set_result_config_no_except(cfg) ==
    LET out == GetItem(cfg, "output")
    IN  IF out.e # "none" THEN out
        ELSE LET c == Contains("format", out.v)
             IN  IF c.e # "none" THEN c
                 ELSE IF c.v THEN GetItem(out.v, "format")
                 ELSE Ok(EmptyMap)

(* the except KeyError clause of set_result_config *)
WrapKeyError(r) ==
    IF r.e = "KeyError" THEN RaiseMsg("InvalidConfigError", "'output'") ELSE r

(* ResultMapperConfig.set_result_config *)
set_result_config(cfg) ==
    LET out == WrapKeyError(GetItem(cfg, "output"))
    IN  IF out.e # "none" THEN out
        ELSE LET c == Contains("format", out.v)
             IN  IF c.e # "none" THEN c
                 ELSE IF c.v THEN WrapKeyError(GetItem(out.v, "format"))
                 ELSE Ok(EmptyMap)

FormatOptions ==
    {Unset, Null,
     YMap(<< <<"body", Null>> >>),
     YMap(<< <<"body", YMap(<< <<"format", YList(<<>>)>> >>)>> >>)}

NameOptions == {Unset, Null, Str(<<>>), Str(<<"c", "s", "v">>)}
ArgumentsOptions == {Unset, Null, EmptyMap, YMap(<< <<"delimiter", Str(<<",">>)>> >>)}

Optional(k, opt) == IF opt = Unset THEN <<>> ELSE << <<k, opt>> >>

ResultOptions ==
    {Unset, Null, Str(<<"c", "s", "v">>)}
        \cup {YMap(Optional("name", n) \o Optional("arguments", a)) :
                n \in NameOptions, a \in ArgumentsOptions}

OutputOptions ==
    {Unset, Null, Str(<<"x">>), Str(<<"f", "o", "r", "m", "a", "t">>)}
        \cup {YMap(Optional("format", f) \o Optional("result", r)) :
                f \in FormatOptions, r \in ResultOptions}

OutputEntries == {EntryWith(Optional("output", o)) : o \in OutputOptions}

InitResultMapper ==
    /\ pc = "result_mapper"
    /\ exact_config \in OutputEntries
    /\ NoResolveInputs /\ key = <<"A">> /\ data = Null
    /\ consulted = {} /\ config = Unset
    /\ mappers = <<>> /\ result_config = Unset /\ name = Unset
    /\ arguments = Unset /\ range = Unset /\ err = "none" /\ msg = ""

SetResultConfig ==
    /\ pc = "result_mapper"
    /\ LET r == set_result_config(exact_config)
       IN  /\ err' = r.e /\ msg' = r.m
           /\ result_config' = IF r.e = "none" THEN r.v ELSE result_config
    /\ pc' = "done"
    /\ UNCHANGED <<inputs, consulted, config, exact_config, mappers,
                   name, arguments, range>>

NextResultMapper == SetResultConfig

SpecResultMapper == InitResultMapper /\ [][NextResultMapper]_vars

NoOutput == ~HasKey(exact_config, "output")
OutputIsMapping == HasKey(exact_config, "output") /\ Lookup(exact_config, "output").t = "map"
OutputHas(k) == OutputIsMapping /\ HasKey(Lookup(exact_config, "output"), k)

(* C5 as stated: without an output key, or with an output mapping that has no
   format key, the result is the empty structure and nothing is raised; with
   output.format the result is that value. *)
C5_AbsentOutputIsEmptyFormat ==
    pc = "done" =>
        /\ NoOutput \/ (OutputIsMapping /\ ~OutputHas("format")) =>
              err = "none" /\ result_config = EmptyMap
        /\ OutputHas("format") =>
              err = "none" /\ result_config = Lookup(Lookup(exact_config, "output"), "format")

(* C5 amended: an output mapping without a format key gives the empty
   structure and output.format is returned verbatim, but an entry without an
   output key fails with InvalidConfigError and sets no result. *)
C5_AbsentOutputIsInvalidConfig ==
    pc = "done" =>
        /\ NoOutput => err = "InvalidConfigError" /\ result_config = Unset
        /\ OutputIsMapping /\ ~OutputHas("format") =>
              err = "none" /\ result_config = EmptyMap
        /\ OutputHas("format") =>
              err = "none" /\ result_config = Lookup(Lookup(exact_config, "output"), "format")

C5_Witness ==
    pc = "done" /\ NoOutput /\ err = "InvalidConfigError" /\ result_config = Unset

----------------------------------------------------------------------------
(* ResultConfig.__init__ *)

MissingMessage == "result segment is missing. Please ensure configuration is provided"
EmptyMessage == "result segment cannot be empty. Please ensure configuration is valid"

result_config_init(cfg) ==
    LET out == GetItem(cfg, "output")
    IN  IF out.e # "none" THEN out
        ELSE LET ks == Keys(out.v)
             IN  IF ks.e # "none" THEN ks
                 ELSE IF ~HasKey(out.v, "result")
                 THEN RaiseMsg("InvalidConfigError", MissingMessage)
                 ELSE LET result == Lookup(out.v, "result")
                      IN  IF result = Null \/ ~Truthy(result)
                          THEN RaiseMsg("InvalidConfigError", EmptyMessage)
                          ELSE LET n == GetItem(result, "name")
                               IN  IF n.e # "none" THEN n
                                   ELSE Ok([name |-> n.v,
                                            arguments |->
                                                IF HasKey(result, "arguments")
                                                THEN Lookup(result, "arguments")
                                                ELSE EmptyMap])

InitResult ==
    /\ pc = "result"
    /\ exact_config \in OutputEntries
    /\ NoResolveInputs /\ key = <<"A">> /\ data = Null
    /\ consulted = {} /\ config = Unset
    /\ mappers = <<>> /\ result_config = Unset /\ name = Unset
    /\ arguments = Unset /\ range = Unset /\ err = "none" /\ msg = ""

ResultConfigInit ==
    /\ pc = "result"
    /\ LET r == result_config_init(exact_config)
       IN  /\ err' = r.e /\ msg' = r.m
           /\ name' = IF r.e = "none" THEN r.v.name ELSE name
           /\ arguments' = IF r.e = "none" THEN r.v.arguments ELSE arguments
    /\ pc' = "done"
    /\ UNCHANGED <<inputs, consulted, config, exact_config, mappers,
                   result_config, range>>

NextResult == ResultConfigInit

SpecResult == InitResult /\ [][NextResult]_vars

(* C6: when output.result does not exist the constructor fails with
   InvalidConfigError and the "missing" message; when it exists but is null or
   empty it fails with InvalidConfigError and the "cannot be empty" message;
   neither case sets a name or arguments. *)
C6_MissingOrEmptyResultIsInvalidConfig ==
    pc = "done" =>
        /\ NoOutput \/ (OutputIsMapping /\ ~OutputHas("result")) =>
              /\ err = "InvalidConfigError" /\ msg = MissingMessage
              /\ name = Unset /\ arguments = Unset
        /\ OutputHas("result") /\ ~Truthy(Lookup(Lookup(exact_config, "output"), "result")) =>
              /\ err = "InvalidConfigError" /\ msg = EmptyMessage
              /\ name = Unset /\ arguments = Unset

(* C7: a constructed ResultConfig has a non-empty string as its name and an
   argument mapping that is not null: result.arguments when present, the empty
   mapping when absent. *)
C7_NameNonEmptyArgumentsNotNull ==
    pc = "done" /\ err = "none" =>
        LET result == Lookup(Lookup(exact_config, "output"), "result")
        IN  /\ name.t = "str" /\ name.v # <<>>
            /\ arguments # Null
            /\ arguments = IF HasKey(result, "arguments")
                           THEN Lookup(result, "arguments") ELSE EmptyMap

----------------------------------------------------------------------------
(* Every constructor, from every state it can start in *)

Init ==
    \/ InitSelect
    \/ InitExecutor
    \/ InitConverter
    \/ InitMappers
    \/ InitResultMapper
    \/ InitResult

Next ==
    \/ RetrieveConfig
    \/ SetExactConfig
    \/ Converter
    \/ SetMappers
    \/ SetResultConfig
    \/ ResultConfigInit

Spec == Init /\ [][Next]_vars

DocumentedErrors == {"InvalidConfigError", "MissingConfigError", "ValueError"}

(* C8: whatever a constructor raises is an InvalidConfigError, a
   MissingConfigError or a ValueError. *)
C8_OnlyDocumentedErrors == err = "none" \/ err \in DocumentedErrors

====
